---- MODULE Spec2Model ----
(***************************************************************************)
(* PacketWatch (app.py): a Flask application whose /stream endpoint runs   *)
(* one event_stream generator per connected subscriber.  Every generator   *)
(* samples the host counters once per second, derives rates, updates the   *)
(* process-wide rolling window WINDOW_PPS and the process-wide smoothed    *)
(* score ewma_health, and yields one payload.  app.run(threaded=True)      *)
(* serves every request on its own thread, so the generators interleave    *)
(* on the module globals _last, ewma_health and WINDOW_PPS.                *)
(*                                                                         *)
(* Numbers.  Python floats are modelled by exact values where the model    *)
(* can afford it and by fixed point elsewhere:                             *)
(*   - time.time() is an integer number of seconds (clock);                *)
(*   - a per-second rate is an exact fraction [n, d] in lowest terms;      *)
(*   - a health score is a fixed-point number with HQ units per point;     *)
(*   - math.exp is tabulated at quarter steps and interpolated.            *)
(* Connection counts (tcp/udp/established) are copied from the source to   *)
(* the payload without taking part in any computation and are left out.    *)
(***************************************************************************)
EXTENDS Integers, Sequences, FiniteSets, TLC

(***************************************************************************)
(* Bounds of the model                                                     *)
(***************************************************************************)
MaxClock == 2         \* seconds of wall-clock time a run of Spec explores
MaxEvents == 1        \* counter changes the host may make in a run of Spec
BytesStep == 1000     \* bytes that come with one received packet
WarmTicks == 29       \* quiet ticks behind a warm start
YoungTicks == 6       \* quiet ticks behind a start with a short window
MaxCounter == 2       \* largest counter value of a compute_rates input
MaxTail == 2          \* recent samples that differ from the older ones

(***************************************************************************)
(* Program constants                                                       *)
(***************************************************************************)
W == 30                       \* app.py:12
AlphaNum == 2                 \* app.py:10  ALPHA = 0.2 = AlphaNum / AlphaDen
AlphaDen == 10
EpsInv == 1000000             \* app.py:50  1e-6 = 1 / EpsInv
RefCapacity == 26214400       \* app.py:69  25 * 1024 * 1024
ErrWeight == 5                \* app.py:72
DropWeight == 3               \* app.py:73
BurstZNum == 5                \* app.py:105 2.5 = BurstZNum / BurstZDen
BurstZDen == 2
HQ == 10000                   \* fixed-point units per health point

ExpOne == 10000               \* fixed-point units of math.exp's result
BigBase == 10000              \* limb of the wide integers used for the z-score

\* Python's None; a float that may be None is Some(h) when it is set
None == << >>
Some(h) == <<h>>
Val(o) == o[1]
Subs == {"s1", "s2"}          \* the requests that may open /stream

Fields == {"bytes_sent", "bytes_recv", "packets_sent", "packets_recv",
           "errin", "errout", "dropin", "dropout"}
ByteFields == {"bytes_sent", "bytes_recv"}

(***************************************************************************)
(* Exact fractions                                                         *)
(***************************************************************************)
RECURSIVE Gcd(_, _)
Gcd(a, b) == IF b = 0 THEN a ELSE Gcd(b, a % b)

Frac(n, d) == LET g == Gcd(n, d) IN [n |-> n \div g, d |-> d \div g]
Zero == [n |-> 0, d |-> 1]
FracAdd(a, b) == Frac(a.n * b.d + b.n * a.d, a.d * b.d)
FracLess(a, b) == a.n * b.d < b.n * a.d

\* round(n / d) to the nearest integer, ties to even, as Python's round()
RoundDiv(n, d) ==
    LET q == n \div d
        r == n % d
    IN  IF 2 * r < d THEN q
        ELSE IF 2 * r > d THEN q + 1
        ELSE IF q % 2 = 0 THEN q ELSE q + 1

(***************************************************************************)
(* read_counters: the snapshot of the host counters                        *)
(***************************************************************************)
read_counters(host) == [f \in Fields |-> host[f]]

Snapshot(t, c) == [f \in Fields \cup {"t"} |-> IF f = "t" THEN t ELSE c[f]]

(***************************************************************************)
(* compute_rates(now, prev, cur)                                           *)
(***************************************************************************)
\* (mutant: the floor set at one second)
ElapsedFloorOne(now, prev) ==
    IF now - prev["t"] >= 1 THEN Frac(now - prev["t"], 1) ELSE Frac(1, 1)

\* dt = max(1e-6, now - prev["t"]), as a fraction of a second
Elapsed(now, prev) ==
    IF now - prev["t"] >= 1 THEN Frac(now - prev["t"], 1) ELSE Frac(1, EpsInv)

\* max(0, (c - p) / dt)
PerSecond(c, p, dt) == IF c - p <= 0 THEN Zero ELSE Frac((c - p) * dt.d, dt.n)

\* (mutant: the clamp forgotten)
DeltaUnclamped(c, p) == c - p

\* max(0, c - p)
Delta(c, p) == IF c - p <= 0 THEN 0 ELSE c - p

\* the counter behind each rate and each delta of a RateSet
RateOf == [bytes_sent   |-> "bytes_sec_sent",  bytes_recv   |-> "bytes_sec_recv",
           packets_sent |-> "pkts_sec_sent",   packets_recv |-> "pkts_sec_recv"]
DeltaOf == [errin  |-> "errin_delta",  errout  |-> "errout_delta",
            dropin |-> "dropin_delta", dropout |-> "dropout_delta"]

compute_rates(now, prev, cur) ==
    LET dt == Elapsed(now, prev)
        bs == PerSecond(cur["bytes_sent"], prev["bytes_sent"], dt)
        br == PerSecond(cur["bytes_recv"], prev["bytes_recv"], dt)
        ps == PerSecond(cur["packets_sent"], prev["packets_sent"], dt)
        pr == PerSecond(cur["packets_recv"], prev["packets_recv"], dt)
    IN  [bytes_sec_sent  |-> bs,
         bytes_sec_recv  |-> br,
         pkts_sec_sent   |-> ps,
         pkts_sec_recv   |-> pr,
         errin_delta     |-> Delta(cur["errin"], prev["errin"]),
         errout_delta    |-> Delta(cur["errout"], prev["errout"]),
         dropin_delta    |-> Delta(cur["dropin"], prev["dropin"]),
         dropout_delta   |-> Delta(cur["dropout"], prev["dropout"]),
         bytes_sec_total |-> FracAdd(bs, br),
         pkts_sec_total  |-> FracAdd(ps, pr)]

(***************************************************************************)
(* Wide non-negative integers (Python's are unbounded): little-endian      *)
(* sequences of limbs below BigBase, without leading zero limbs.           *)
(***************************************************************************)
\* Each operation binds its operands to their values before it works on
\* them, so that an operand is evaluated once however often it is used.
RECURSIVE BigOfValue(_)
BigOfValue(k) ==
    IF k = 0 THEN << >> ELSE <<k % BigBase>> \o BigOfValue(k \div BigBase)

BigOf(k) == CHOOSE r \in {BigOfValue(v) : v \in {k}} : TRUE

RECURSIVE BigAddC(_, _, _)
BigAddC(a, b, c) ==
    IF a = << >> /\ b = << >>
    THEN BigOfValue(c)
    ELSE LET x == IF a = << >> THEN 0 ELSE Head(a)
             y == IF b = << >> THEN 0 ELSE Head(b)
             ta == IF a = << >> THEN << >> ELSE Tail(a)
             tb == IF b = << >> THEN << >> ELSE Tail(b)
             s == x + y + c
         IN  <<s % BigBase>> \o BigAddC(ta, tb, s \div BigBase)

BigAdd(a, b) == CHOOSE r \in {BigAddC(t[1], t[2], 0) : t \in {<<a, b>>}} : TRUE

\* a * m for a limb-sized m
RECURSIVE BigScaleC(_, _, _)
BigScaleC(a, m, c) ==
    IF a = << >> \/ m = 0
    THEN BigOfValue(c)
    ELSE LET s == Head(a) * m + c
         IN  <<s % BigBase>> \o BigScaleC(Tail(a), m, s \div BigBase)

BigShift(a) == CHOOSE r \in {IF v = << >> THEN << >> ELSE <<0>> \o v : v \in {a}} : TRUE

RECURSIVE BigMul(_, _)
BigMulValue(a, b) ==
    IF b = << >> THEN << >>
    ELSE BigAdd(BigScaleC(a, Head(b), 0), BigShift(BigMul(a, Tail(b))))

BigMul(a, b) == CHOOSE r \in {BigMulValue(t[1], t[2]) : t \in {<<a, b>>}} : TRUE

RECURSIVE BigLessFrom(_, _, _)
BigLessFrom(a, b, i) ==
    IF i = 0 THEN FALSE
    ELSE IF a[i] # b[i] THEN a[i] < b[i]
    ELSE BigLessFrom(a, b, i - 1)

BigLessValue(a, b) ==
    IF Len(a) # Len(b) THEN Len(a) < Len(b) ELSE BigLessFrom(a, b, Len(a))

BigLess(a, b) == \E t \in {<<a, b>>} : BigLessValue(t[1], t[2])

BigTimes(k, m) == BigMul(BigOf(k), BigOf(m))

(***************************************************************************)
(* Burst detection: the z-score of a sample against the window             *)
(***************************************************************************)
Lcm(a, b) == (a \div Gcd(a, b)) * b

RECURSIVE LcmOf(_)
LcmOf(S) == IF S = {} THEN 1
            ELSE LET d == CHOOSE d \in S : TRUE IN Lcm(d, LcmOf(S \ {d}))

\* the window and the sample over one common denominator
CommonDen(win, x) == LcmOf({win[i].d : i \in DOMAIN win} \cup {x.d})
Numer(v, D) == v.n * (D \div v.d)

Count(win, v) == Cardinality({i \in DOMAIN win : win[i] = v})

\* sum(WINDOW_PPS) * D
RECURSIVE SumOver(_, _, _)
SumOver(vals, win, D) ==
    IF vals = {} THEN 0
    ELSE LET v == CHOOSE v \in vals : TRUE
         IN  Count(win, v) * Numer(v, D) + SumOver(vals \ {v}, win, D)

\* sum(x*x for x in WINDOW_PPS) * D * D
RECURSIVE SquaresOver(_, _, _)
SquaresOver(vals, win, D) ==
    IF vals = {} THEN << >>
    ELSE LET v == CHOOSE v \in vals : TRUE
         IN  BigAdd(BigMul(BigOf(Count(win, v)), BigTimes(Numer(v, D), Numer(v, D))),
                    SquaresOver(vals \ {v}, win, D))

\* With n = len(WINDOW_PPS), S = sum * D, Q = sum of squares * D * D and
\* X = sample * D:   mean = S / (n D),   var = (n Q - S S) / (n n D D)  for
\* n > 1 and 0 otherwise,   sample - mean = (n X - S) / (n D).
WinVals(win) == {win[i] : i \in DOMAIN win}
WinSum(win, x) == SumOver(WinVals(win), win, CommonDen(win, x))
WinNQ(win, x) == BigMul(BigOf(Len(win)), SquaresOver(WinVals(win), win, CommonDen(win, x)))
WinSS(win, x) == BigTimes(WinSum(win, x), WinSum(win, x))

\* var > 0: the variance numerator n Q - S S is positive
VarPositive(win, x) == Len(win) > 1 /\ BigLess(WinSS(win, x), WinNQ(win, x))

\* (mutant: the guard forgotten, every window divides by its std)
StdGuardMissing(win, x) == TRUE

\* std > 1e-6, that is (n Q - S S) * EpsInv^2 > (n D)^2
StdAboveEps(win, x) ==
    LET nD == Len(win) * CommonDen(win, x)
    IN  /\ VarPositive(win, x)
        /\ BigLess(BigAdd(BigTimes(nD, nD),
                          BigMul(WinSS(win, x), BigTimes(EpsInv, EpsInv))),
                   BigMul(WinNQ(win, x), BigTimes(EpsInv, EpsInv)))

\* (mutant: the magnitude of z tested, its sign ignored)
ZAboveEitherWay(win, x, zn, zd) ==
    LET D == CommonDen(win, x)
        A == IF Len(win) * Numer(x, D) < WinSum(win, x)
             THEN WinSum(win, x) - Len(win) * Numer(x, D)
             ELSE Len(win) * Numer(x, D) - WinSum(win, x)
    IN  /\ StdAboveEps(win, x)
        /\ BigLess(BigMul(BigOf(zn * zn), WinNQ(win, x)),
                   BigAdd(BigMul(BigOf(zd * zd), BigTimes(A, A)),
                          BigMul(BigOf(zn * zn), WinSS(win, x))))

\* z = (sample - mean) / std if std > 1e-6 else 0;  burst = z > 2.5.
\* For std > 0:  z > 5/2  iff  n X - S > 0  and  4 (n X - S)^2 > 25 (n Q - S S).
ZAbove(win, x, zn, zd) ==
    LET D == CommonDen(win, x)
        A == Len(win) * Numer(x, D) - WinSum(win, x)
    IN  /\ StdAboveEps(win, x)
        /\ A > 0
        /\ BigLess(BigMul(BigOf(zn * zn), WinNQ(win, x)),
                   BigAdd(BigMul(BigOf(zd * zd), BigTimes(A, A)),
                          BigMul(BigOf(zn * zn), WinSS(win, x))))

\* (mutant: a threshold of 6 in place of 2.5)
IsBurstAboveSix(win, x) == ZAbove(win, x, 6, 1)

IsBurst(win, x) == ZAbove(win, x, BurstZNum, BurstZDen)

\* z = 0 exactly: the guard took the else branch, or the sample is the mean
ZIsZero(win, x) ==
    \/ ~ StdAboveEps(win, x)
    \/ Len(win) * Numer(x, CommonDen(win, x)) = WinSum(win, x)

(***************************************************************************)
(* The anomaly list (types only; the messages carry no further state)      *)
(***************************************************************************)
\* (mutant: elif in place of the third if)
AnomaliesElif(rates, burst) ==
    (IF burst THEN <<"burst">> ELSE << >>)
    \o (IF rates.dropin_delta + rates.dropout_delta > 0 THEN <<"drop">>
        ELSE IF rates.errin_delta + rates.errout_delta > 0 THEN <<"error">>
        ELSE << >>)

Anomalies(rates, burst) ==
    (IF burst THEN <<"burst">> ELSE << >>)
    \o (IF rates.dropin_delta + rates.dropout_delta > 0 THEN <<"drop">> ELSE << >>)
    \o (IF rates.errin_delta + rates.errout_delta > 0 THEN <<"error">> ELSE << >>)

(***************************************************************************)
(* health_score                                                            *)
(***************************************************************************)
\* round(ExpOne * exp(-q/4)) for q = 0 .. 40
ExpTable ==
    <<10000, 7788, 6065, 4724, 3679, 2865, 2231, 1738, 1353, 1054, 821, 639,
      498, 388, 302, 235, 183, 143, 111, 87, 67, 52, 41, 32, 25, 19, 15, 12,
      9, 7, 6, 4, 3, 3, 2, 2, 1, 1, 1, 1, 0>>

\* ExpOne * math.exp(-x) for a fraction x >= 0: the table, interpolated
\* linearly in hundredths of a quarter step; 0 from x = 10 on.
ExpNeg(x) ==
    LET whole == x.n \div x.d
        rem == x.n % x.d
        part == IF x.d < 5000000 THEN (rem * 400) \div x.d
                ELSE rem \div (x.d \div 400)
        pos == whole * 400 + (IF part > 399 THEN 399 ELSE part)
        q == pos \div 100
        fr == pos % 100
    IN  IF whole >= 10 THEN 0
        ELSE ExpTable[q + 1] - ((ExpTable[q + 1] - ExpTable[q + 2]) * fr) \div 100

Min(a, b) == IF a < b THEN a ELSE b
Max(a, b) == IF a > b THEN a ELSE b

\* throughput = rates["bytes_sec_total"] / (25 * 1024 * 1024)
Throughput(rates) ==
    Frac(rates.bytes_sec_total.n, rates.bytes_sec_total.d * RefCapacity)

\* base = 100 * (1 - math.exp(-throughput)), in HQ units
Base(rates) == 100 * (((ExpOne - ExpNeg(Throughput(rates))) * HQ) \div ExpOne)

\* (mutant: the drops left out of the penalty)
PenaltyErrorsOnly(rates) ==
    ErrWeight * (rates.errin_delta + rates.errout_delta) * HQ

Penalty(rates) ==
    (ErrWeight * (rates.errin_delta + rates.errout_delta)
     + DropWeight * (rates.dropin_delta + rates.dropout_delta)) * HQ

\* (mutant: the lower clamp forgotten)
RawNoFloor(rates) == Min(100 * HQ, Base(rates) - Penalty(rates))

\* raw = max(0, min(100, base - penalty))
Raw(rates) == Max(0, Min(100 * HQ, Base(rates) - Penalty(rates)))

\* raw if ewma_health is None else ALPHA * raw + (1 - ALPHA) * ewma_health
Smooth(raw, prev) ==
    IF prev = None THEN raw
    ELSE (AlphaNum * raw + (AlphaDen - AlphaNum) * Val(prev)) \div AlphaDen

\* round(ewma_health, 1), in tenths of a point
Round1(h) == RoundDiv(h * 10, HQ)

(***************************************************************************)
(* State                                                                   *)
(***************************************************************************)
VARIABLES
    clock,          \* time.time(), in seconds
    horizon,        \* the last second explored
    host,           \* the cumulative counters psutil reports
    events,         \* counter changes the host may still make
    _last,          \* app.py:8   last snapshot (with timestamp) or None
    ewma_health,    \* app.py:9   smoothed health score or None
    WINDOW_PPS,     \* app.py:11  the rolling window of packet rates
    pc,             \* where each request's event_stream generator stands
    wake,           \* when the generator's time.sleep(1) returns
    cur,            \* the generator's local cur (cur["t"] is its now)
    rates,          \* the generator's local rates
    burst,          \* the generator's local burst
    smoothed,       \* health_score: the value about to be stored (line 75)
    payload,        \* the payload the generator is suspended on
    observed,       \* history: every sample appended to WINDOW_PPS, in order
    reported,       \* history: per generator, the counters its first tick was
                    \* measured from and the deltas its ticks have added up to
    resets          \* history: the host has restarted its counters

vars == <<clock, horizon, host, events, _last, ewma_health, WINDOW_PPS,
          pc, wake, cur, rates, burst, smoothed, payload, observed,
          reported, resets>>

env == <<clock, horizon, host, events, resets>>
locals == <<cur, rates, burst, smoothed, payload>>
hist == <<observed, reported>>

NoCounters == [f \in Fields |-> 0]

NoLocals ==
    /\ cur = [s \in Subs |-> None]
    /\ rates = [s \in Subs |-> None]
    /\ burst = [s \in Subs |-> FALSE]
    /\ smoothed = [s \in Subs |-> None]
    /\ payload = [s \in Subs |-> None]

\* lines 8-11: the module as loaded, no request served yet
InitCold ==
    /\ clock = 0
    /\ horizon = MaxClock
    /\ host = NoCounters
    /\ events = MaxEvents
    /\ _last = None
    /\ ewma_health = None
    /\ WINDOW_PPS = << >>
    /\ observed = << >>
    /\ reported = [s \in Subs |-> None]
    /\ resets = FALSE
    /\ pc = [s \in Subs |-> "idle"]
    /\ wake = [s \in Subs |-> 0]
    /\ NoLocals

\* line 100 as one step
Evict(win) == IF Len(win) > W THEN Tail(win) ELSE win

\* One tick of a generator that runs alone (lines 94-139), on the globals g,
\* at second t with the host counters h.
TickAlone(g, t, h) ==
    LET c == Snapshot(t, read_counters(h))
        r == compute_rates(t, g.last, c)
    IN  [last   |-> c,
         ewma   |-> Some(Smooth(Raw(r), g.ewma)),
         window |-> Evict(Append(g.window, r.pkts_sec_total))]

\* The globals after a single generator has primed at second 0 and then run
\* k ticks, one a second, on a host whose counters stayed at zero.
RECURSIVE QuietFrom(_, _, _)
QuietFrom(g, t, k) ==
    \* (the comparison makes TLC evaluate one tick before it starts the next)
    LET after == TickAlone(g, t, NoCounters)
    IN  IF t > k \/ after # after THEN g ELSE QuietFrom(after, t + 1, k)

QuietRun(k) ==
    QuietFrom([last |-> Snapshot(0, NoCounters), ewma |-> None, window |-> << >>],
              1, k)

\* what a generator has reported after quiet ticks only
QuietReport ==
    [base |-> [f \in DOMAIN DeltaOf |-> 0], sum |-> [f \in DOMAIN DeltaOf |-> 0]]

\* The process k seconds after its start: one subscriber has been streaming
\* alone since the start and now sleeps in line 140; the other has yet to come.
WarmAt(k) ==
    /\ clock = k
    /\ horizon = k + MaxClock
    /\ host = NoCounters
    /\ events = MaxEvents
    /\ _last = QuietRun(k).last
    /\ ewma_health = QuietRun(k).ewma
    /\ WINDOW_PPS = QuietRun(k).window
    /\ observed = QuietRun(k).window
    /\ reported = [s \in Subs |-> IF s = "s1" THEN QuietReport ELSE None]
    /\ resets = FALSE
    /\ pc = [s \in Subs |-> IF s = "s1" THEN "sleep" ELSE "idle"]
    /\ wake = [s \in Subs |-> IF s = "s1" THEN k + 1 ELSE 0]
    /\ NoLocals

\* the window about to be full
InitWarm == WarmAt(WarmTicks)

\* the window still short
InitYoung == WarmAt(YoungTicks)

Init == InitCold \/ InitWarm \/ InitYoung

(***************************************************************************)
(* The host: time passes; counters grow or are reset between two reads     *)
(***************************************************************************)
\* A generator is blocked while no request has come, while it sleeps, while
\* it is suspended at its yield, and once it has ended.  Computation takes
\* no time: the clock moves only when every generator is blocked.
Blocked(s) ==
    \/ pc[s] \in {"idle", "yield", "closed", "crashed"}
    \/ pc[s] = "sleep" /\ wake[s] > clock

Advance ==
    /\ clock < horizon
    /\ \A s \in Subs : Blocked(s)
    /\ clock' = clock + 1
    /\ UNCHANGED <<horizon, host, events, resets, _last, ewma_health, WINDOW_PPS,
                   pc, wake, locals, hist>>

\* What the host has done to its counters since they were last read: nothing,
\* a packet received, an input error, an output drop, or an interface restart
\* that starts the cumulative counters again from zero.
Changes == {"none", "packet", "error", "drop", "reset"}

Changed(h, g) ==
    CASE g = "none"   -> h
      [] g = "packet" -> [h EXCEPT !["packets_recv"] = @ + 1,
                                   !["bytes_recv"] = @ + BytesStep]
      [] g = "error"  -> [h EXCEPT !["errin"] = @ + 1]
      [] g = "drop"   -> [h EXCEPT !["dropout"] = @ + 1]
      [] g = "reset"  -> NoCounters

\* the changes the host may have made, within the budget of the run
Possible(g) == g = "none" \/ (events > 0 /\ Changed(host, g) # host)

Observe(g) ==
    /\ host' = Changed(host, g)
    /\ events' = IF g = "none" THEN events ELSE events - 1
    /\ resets' = (resets \/ g = "reset")

(***************************************************************************)
(* stream / event_stream, one generator per request                        *)
(***************************************************************************)
\* lines 82-88: the request arrives, the generator starts and tests _last
Connect(s) ==
    /\ pc[s] = "idle"
    /\ pc' = [pc EXCEPT ![s] = IF _last = None THEN "prime" ELSE "sleep"]
    /\ wake' = [wake EXCEPT ![s] = clock]
    /\ UNCHANGED <<env, _last, ewma_health, WINDOW_PPS, locals, hist>>

\* lines 89-91: prime the baseline, then sleep
Prime(s) ==
    /\ pc[s] = "prime"
    /\ \E g \in Changes :
          /\ Possible(g)
          /\ Observe(g)
          /\ _last' = Snapshot(clock, read_counters(host'))
    /\ pc' = [pc EXCEPT ![s] = "sleep"]
    /\ wake' = [wake EXCEPT ![s] = clock + 1]
    /\ UNCHANGED <<clock, horizon, ewma_health, WINDOW_PPS, locals, hist>>

\* lines 94-95: now = time.time(); cur = {"t": now, **read_counters()}
Sample(s) ==
    /\ pc[s] = "sleep"
    /\ clock >= wake[s]
    /\ \E g \in Changes :
          /\ Possible(g)
          /\ Observe(g)
          /\ cur' = [cur EXCEPT ![s] = Snapshot(clock, read_counters(host'))]
    /\ pc' = [pc EXCEPT ![s] = "rates"]
    /\ UNCHANGED <<clock, horizon, _last, ewma_health, WINDOW_PPS, wake,
                   rates, burst, smoothed, payload, hist>>

\* lines 15, 22, 89, 95: psutil raises; nothing in event_stream catches it,
\* the exception leaves the generator and the response ends
SourceUnavailable(s) ==
    /\ \/ pc[s] = "prime"
       \/ pc[s] = "sleep" /\ clock >= wake[s]
    /\ pc' = [pc EXCEPT ![s] = "crashed"]
    /\ UNCHANGED <<env, _last, ewma_health, WINDOW_PPS, wake, locals, hist>>

\* the history of a generator's deltas, one tick further: the tick was
\* measured from prev and found the deltas of r
Report(h, prev, r) ==
    IF h = None
    THEN [base |-> [f \in DOMAIN DeltaOf |-> prev[f]],
          sum  |-> [f \in DOMAIN DeltaOf |-> r[DeltaOf[f]]]]
    ELSE [h EXCEPT !.sum = [f \in DOMAIN DeltaOf |-> h.sum[f] + r[DeltaOf[f]]]]

\* line 96
Rates(s) ==
    /\ pc[s] = "rates"
    /\ rates' = [rates EXCEPT ![s] = compute_rates(cur[s]["t"], _last, cur[s])]
    /\ reported' = [reported EXCEPT ![s] = Report(@, _last, rates'[s])]
    /\ pc' = [pc EXCEPT ![s] = "append"]
    /\ UNCHANGED <<env, _last, ewma_health, WINDOW_PPS, wake,
                   cur, burst, smoothed, payload, observed>>

\* line 99
WindowAppend(s) ==
    /\ pc[s] = "append"
    /\ WINDOW_PPS' = Append(WINDOW_PPS, rates[s].pkts_sec_total)
    /\ observed' = Append(observed, rates[s].pkts_sec_total)
    /\ pc' = [pc EXCEPT ![s] = "evict_test"]
    /\ UNCHANGED <<env, _last, ewma_health, wake, locals, reported>>

\* line 100, the test
EvictTest(s) ==
    /\ pc[s] = "evict_test"
    /\ pc' = [pc EXCEPT ![s] = IF Len(WINDOW_PPS) > W THEN "evict_pop" ELSE "stats"]
    /\ UNCHANGED <<env, _last, ewma_health, WINDOW_PPS, wake, locals, hist>>

\* line 100, WINDOW_PPS.pop(0)
EvictPop(s) ==
    /\ pc[s] = "evict_pop"
    /\ WINDOW_PPS' = Tail(WINDOW_PPS)
    /\ pc' = [pc EXCEPT ![s] = "stats"]
    /\ UNCHANGED <<env, _last, ewma_health, wake, locals, hist>>

\* lines 101-105: mean, var, std, z and burst
Stats(s) ==
    /\ pc[s] = "stats"
    /\ burst' = [burst EXCEPT ![s] = IsBurst(WINDOW_PPS, rates[s].pkts_sec_total)]
    /\ pc' = [pc EXCEPT ![s] = "score"]
    /\ UNCHANGED <<env, _last, ewma_health, WINDOW_PPS, wake,
                   cur, rates, smoothed, payload, hist>>

\* lines 116, 69-75: health_score evaluates the right-hand side of line 75
ScoreLoad(s) ==
    /\ pc[s] = "score"
    /\ smoothed' = [smoothed EXCEPT ![s] = Some(Smooth(Raw(rates[s]), ewma_health))]
    /\ pc' = [pc EXCEPT ![s] = "score_store"]
    /\ UNCHANGED <<env, _last, ewma_health, WINDOW_PPS, wake,
                   cur, rates, burst, payload, hist>>

\* line 75: the store to the global ewma_health
ScoreStore(s) ==
    /\ pc[s] = "score_store"
    /\ ewma_health' = smoothed[s]
    /\ smoothed' = [smoothed EXCEPT ![s] = None]
    /\ pc' = [pc EXCEPT ![s] = "emit"]
    /\ UNCHANGED <<env, _last, WINDOW_PPS, wake, cur, rates, burst, payload, hist>>

\* lines 118-136
Payload(now, r, score, anoms) ==
    [ts             |-> now,
     throughput_bps |-> r.bytes_sec_total.n \div r.bytes_sec_total.d,
     pkts_per_sec   |-> (r.pkts_sec_total.n \div r.pkts_sec_total.d) * 100
                        + RoundDiv((r.pkts_sec_total.n % r.pkts_sec_total.d) * 100,
                                   r.pkts_sec_total.d),
     errors         |-> [in       |-> r.errin_delta,
                         out      |-> r.errout_delta,
                         drop_in  |-> r.dropin_delta,
                         drop_out |-> r.dropout_delta],
     health         |-> score,
     anomalies      |-> anoms]

\* lines 76, 107-138: return round(ewma_health, 1); the anomaly list; build
\* the payload; yield
Emit(s) ==
    /\ pc[s] = "emit"
    /\ payload' = [payload EXCEPT ![s] =
           Payload(cur[s]["t"], rates[s], Round1(Val(ewma_health)),
                   Anomalies(rates[s], burst[s]))]
    /\ pc' = [pc EXCEPT ![s] = "yield"]
    /\ UNCHANGED <<env, _last, ewma_health, WINDOW_PPS, wake, cur, rates, burst,
                   smoothed, hist>>

\* lines 138-140: the server takes the payload and resumes the generator,
\* which stores _last = cur and sleeps
Resume(s) ==
    /\ pc[s] = "yield"
    /\ _last' = cur[s]
    /\ cur' = [cur EXCEPT ![s] = None]
    /\ rates' = [rates EXCEPT ![s] = None]
    /\ burst' = [burst EXCEPT ![s] = FALSE]
    /\ payload' = [payload EXCEPT ![s] = None]
    /\ pc' = [pc EXCEPT ![s] = "sleep"]
    /\ wake' = [wake EXCEPT ![s] = clock + 1]
    /\ UNCHANGED <<env, ewma_health, WINDOW_PPS, smoothed, hist>>

\* line 138: the client has gone; the server closes the generator at its yield
Disconnect(s) ==
    /\ pc[s] = "yield"
    /\ cur' = [cur EXCEPT ![s] = None]
    /\ rates' = [rates EXCEPT ![s] = None]
    /\ burst' = [burst EXCEPT ![s] = FALSE]
    /\ payload' = [payload EXCEPT ![s] = None]
    /\ pc' = [pc EXCEPT ![s] = "closed"]
    /\ UNCHANGED <<env, _last, ewma_health, WINDOW_PPS, wake, smoothed, hist>>

Generator(s) ==
    \/ Connect(s)
    \/ Prime(s)
    \/ Sample(s)
    \/ SourceUnavailable(s)
    \/ Rates(s)
    \/ WindowAppend(s)
    \/ EvictTest(s)
    \/ EvictPop(s)
    \/ Stats(s)
    \/ ScoreLoad(s)
    \/ ScoreStore(s)
    \/ Emit(s)
    \/ Resume(s)
    \/ Disconnect(s)

Next ==
    \/ Advance
    \/ \E s \in Subs : Generator(s)

Spec == Init /\ [][Next]_vars

\* The steps a generator takes by itself once its thread runs: everything
\* between two suspensions.  Connecting, taking the next payload (which
\* resumes the generator) and disconnecting are the client's to do or not.
Compute(s) ==
    \/ Prime(s)
    \/ Sample(s)
    \/ Rates(s)
    \/ WindowAppend(s)
    \/ EvictTest(s)
    \/ EvictPop(s)
    \/ Stats(s)
    \/ ScoreLoad(s)
    \/ ScoreStore(s)
    \/ Emit(s)

\* Time passes, and a thread that can run does run.
Fairness ==
    /\ WF_vars(Advance)
    /\ \A s \in Subs : WF_vars(Compute(s))

SpecLive == Init /\ [][Next]_vars /\ Fairness

(***************************************************************************)
(* One tick on given inputs.  A generator stands at line 96 with its       *)
(* sample taken; the stored snapshot, the sample, the window and the       *)
(* smoothed score are drawn from bounded families, and the tick runs       *)
(* alone up to its yield.                                                  *)
(***************************************************************************)
AtRates(prev, c, win, e) ==
    /\ clock = c["t"]
    /\ horizon = c["t"]
    /\ host = [f \in Fields |-> c[f]]
    /\ events = 0
    /\ _last = prev
    /\ ewma_health = e
    /\ WINDOW_PPS = win
    /\ observed = win
    /\ reported = [s \in Subs |-> None]
    /\ resets = FALSE
    /\ pc = [s \in Subs |-> IF s = "s1" THEN "rates" ELSE "idle"]
    /\ wake = [s \in Subs |-> 0]
    /\ cur = [s \in Subs |-> IF s = "s1" THEN c ELSE None]
    /\ rates = [s \in Subs |-> None]
    /\ burst = [s \in Subs |-> FALSE]
    /\ smoothed = [s \in Subs |-> None]
    /\ payload = [s \in Subs |-> None]

\* Counter pairs: the fields of S went from a to b, the others from b to a
\* (a counter that decreased was reset); the stored snapshot is from second
\* t0 and the sample from second 2, so that now - prev["t"] is 2, 1, 0 or -1.
InitRates ==
    \E a \in 0 .. MaxCounter, b \in 0 .. MaxCounter, S \in SUBSET Fields, t0 \in 0 .. 3 :
        /\ a <= b
        /\ AtRates(Snapshot(t0, [f \in Fields |-> IF f \in S THEN a ELSE b]),
                   Snapshot(2, [f \in Fields |-> IF f \in S THEN b ELSE a]),
                   << >>, None)

\* Windows: k older samples of one packet rate v followed by m recent ones of
\* another rate w; the new sample is x packets in one second.
PktLevels == {0, 100, 10000}
Flags == {0, 1}

Level(l) == Frac(l, 1)

InitBurst ==
    \E k \in 0 .. W, m \in 0 .. MaxTail, v \in PktLevels, w \in PktLevels,
       x \in PktLevels, e \in Flags, d \in Flags :
        /\ k + m <= W
        /\ m = 0 => (w = v /\ e = 0 /\ d = 0)
        /\ AtRates(Snapshot(0, NoCounters),
                   Snapshot(1, [NoCounters EXCEPT !["packets_recv"] = x,
                                                  !["errin"] = e,
                                                  !["dropout"] = d]),
                   [i \in 1 .. k + m |-> IF i <= k THEN Level(v) ELSE Level(w)],
                   Some(0))

\* Health: received bytes in one second, input errors and input drops,
\* against a smoothed score that is unset or set.
ByteLevels == {0, 13107200, 26214400, 262144000}
ErrLevels == {0, 1, 6, 25}
HealthLevels == {0, 56, 70, 100}

InitHealth ==
    \E by \in ByteLevels, er \in ErrLevels, dr \in Flags,
       e \in {None} \cup {Some(h * HQ) : h \in HealthLevels} :
        AtRates(Snapshot(0, NoCounters),
                Snapshot(1, [NoCounters EXCEPT !["bytes_recv"] = by,
                                               !["errin"] = er,
                                               !["dropin"] = dr]),
                << >>, e)

InitTick == InitRates \/ InitBurst \/ InitHealth

NextTick ==
    \E s \in Subs :
        \/ Rates(s)
        \/ WindowAppend(s)
        \/ EvictTest(s)
        \/ EvictPop(s)
        \/ Stats(s)
        \/ ScoreLoad(s)
        \/ ScoreStore(s)
        \/ Emit(s)

SpecTick == InitTick /\ [][NextTick]_vars

(***************************************************************************)
(* Properties                                                              *)
(***************************************************************************)
\* a generator is inside one tick's pipeline: it has sampled (lines 94-95)
\* and has not yet reached its yield (line 138)
InTick(s) ==
    pc[s] \in {"rates", "append", "evict_test", "evict_pop", "stats",
               "score", "score_store", "emit"}

\* C1: ticks are serialized: at any time at most one tick's pipeline
\* computation is in progress, so the rolling window and the smoothed health
\* have a single writer, for any number of subscribers.
C1_TicksSerialized ==
    \A s, t \in Subs : InTick(s) /\ InTick(t) => s = t

\* C2: each sampling interval produces one payload, which every subscriber of
\* that interval receives, and the rolling window advances once per interval
\* however many subscribers are connected: two payloads of the same second
\* are equal, and no more samples have been appended than seconds have passed.
C2_OnePayloadPerInterval ==
    /\ \A s, t \in Subs :
          (pc[s] = "yield" /\ pc[t] = "yield" /\ payload[s].ts = payload[t].ts)
          => payload[s] = payload[t]
    /\ Len(observed) <= clock

\* C3: a failed sample skips the tick: the snapshot, the window and the
\* smoothed health stay as they are and the loop goes on to sample at the next
\* interval; the generator is not terminated.
C3_SourceFailureSkipsTick ==
    [][\A s \in Subs :
          (SourceUnavailable(s) /\ pc[s] = "sleep")
          => /\ pc'[s] = "sleep"
             /\ wake'[s] = clock + 1
             /\ UNCHANGED <<_last, WINDOW_PPS, ewma_health>>]_vars

\* C5: the rolling window never holds more than W entries, whenever mean and
\* variance are computed from it and after every tick, under any interleaving
\* of the generators that append to it.
C5_WindowWithinW ==
    (\E s \in Subs : pc[s] \in {"stats", "yield"}) => Len(WINDOW_PPS) <= W

\* C4: for every pair of snapshots, a reset included, every field of the
\* RateSet compute_rates returns is >= 0, and a counter that decreased
\* yields exactly 0 for its field.
C4_RatesNonNegative ==
    \A s \in Subs : pc[s] = "append" =>
        /\ \A f \in DOMAIN RateOf :
              /\ rates[s][RateOf[f]].n >= 0
              /\ rates[s][RateOf[f]].d > 0
              /\ cur[s][f] < _last[f] => rates[s][RateOf[f]] = Zero
        /\ \A f \in DOMAIN DeltaOf :
              /\ rates[s][DeltaOf[f]] >= 0
              /\ cur[s][f] < _last[f] => rates[s][DeltaOf[f]] = 0
        /\ rates[s].bytes_sec_total.n >= 0 /\ rates[s].bytes_sec_total.d > 0
        /\ rates[s].pkts_sec_total.n >= 0 /\ rates[s].pkts_sec_total.d > 0

\* a reset of some counters while others grew
C4_Witness ==
    \E s \in Subs :
        /\ pc[s] = "append"
        /\ cur[s]["errin"] < _last["errin"]
        /\ cur[s]["packets_sent"] < _last["packets_sent"]
        /\ cur[s]["bytes_recv"] > _last["bytes_recv"]
        /\ rates[s].bytes_sec_recv.n > 0
        /\ rates[s].pkts_sec_sent = Zero

\* no generator stands between its append and the end of its eviction
NoObservationInFlight == \A s \in Subs : pc[s] \notin {"evict_test", "evict_pop"}

LastOf(seq, n) == SubSeq(seq, Len(seq) - n + 1, Len(seq))

\* C6: eviction is FIFO: once n samples have been observed, the window holds
\* exactly the last min(n, W) of them in arrival order, the newest last.
C6_WindowIsLastW ==
    NoObservationInFlight
    => WINDOW_PPS = LastOf(observed, Min(Len(observed), W))

\* C7: the smoothed health is unset at first; the first health_score call of
\* the process sets it to the raw score, every later call sets it to
\* 0.2 * raw + 0.8 * previous, and it is never unset again.
C7_EwmaUpdate ==
    [][/\ ewma_health # None => ewma_health' # None
       /\ \A s \in Subs :
             (pc[s] = "score_store" /\ pc'[s] = "emit")
             => ewma_health' =
                    IF ewma_health = None
                    THEN Some(Raw(rates[s]))
                    ELSE Some((2 * Raw(rates[s]) + 8 * Val(ewma_health)) \div 10)]_vars

InRange(h) == 0 <= h /\ h <= 100 * HQ

\* C8: every raw score and every smoothed health, and so the health of every
\* payload, lies in 0..100 whatever the throughput and the penalty.
C8_HealthInRange ==
    /\ ewma_health # None => InRange(Val(ewma_health))
    /\ \A s \in Subs :
          /\ pc[s] = "score" => InRange(Raw(rates[s]))
          /\ pc[s] = "score_store" => InRange(Val(smoothed[s]))
          /\ pc[s] = "yield" => (0 <= payload[s].health /\ payload[s].health <= 1000)

\* a penalty above the base score, met by a smoothed score that was set
C8_Witness ==
    \E s \in Subs :
        /\ pc[s] = "yield"
        /\ Penalty(rates[s]) > Base(rates[s])
        /\ payload[s].health > 0

Rank(tag) == CASE tag = "burst" -> 1 [] tag = "drop" -> 2 [] tag = "error" -> 3
Tags(a) == {a[i] : i \in DOMAIN a}

\* C9: the anomaly list of a tick holds a burst tag iff burst is true, a drop
\* tag iff dropin_delta + dropout_delta > 0 and an error tag iff errin_delta
\* + errout_delta > 0, in the order burst, drop, error, each at most once; it
\* is empty when no condition holds.
C9_AnomalyTags ==
    \A s \in Subs : pc[s] = "yield" =>
        LET a == payload[s].anomalies
        IN  /\ Tags(a) \subseteq {"burst", "drop", "error"}
            /\ "burst" \in Tags(a) <=> burst[s]
            /\ "drop" \in Tags(a)
                   <=> rates[s].dropin_delta + rates[s].dropout_delta > 0
            /\ "error" \in Tags(a)
                   <=> rates[s].errin_delta + rates[s].errout_delta > 0
            /\ \A i, j \in DOMAIN a : i < j => Rank(a[i]) < Rank(a[j])

\* all three tags in one tick
C9_Witness ==
    \E s \in Subs : pc[s] = "yield" /\ payload[s].anomalies = <<"burst", "drop", "error">>

Flat(win) == \A i, j \in DOMAIN win : win[i] = win[j]

\* C10: when the window, the new sample appended, is flat, the guard
\* std > 1e-6 fails, so that z is 0 without a division by the zero std, and
\* no burst is flagged.
C10_FlatWindowNoBurst ==
    \A s \in Subs :
        (pc[s] = "score" /\ Flat(WINDOW_PPS))
        => /\ ~ StdAboveEps(WINDOW_PPS, rates[s].pkts_sec_total)
           /\ ~ burst[s]

\* a full window of one packet rate that is not zero
C10_Witness ==
    \E s \in Subs :
        /\ pc[s] = "score"
        /\ Flat(WINDOW_PPS)
        /\ Len(WINDOW_PPS) = W
        /\ WINDOW_PPS[1] # Zero

\* C11: compute_rates never divides by zero: when no time, or negative time,
\* lies between the stored snapshot and the sample, the elapsed time is
\* floored at 1e-6, and every rate is finite: the counter's growth times 10^6,
\* or 0 when the counter did not grow.
C11_ElapsedFloored ==
    \A s \in Subs :
        (pc[s] = "append" /\ cur[s]["t"] <= _last["t"]) =>
            /\ \A f \in DOMAIN RateOf :
                  rates[s][RateOf[f]] =
                      Frac(Max(0, cur[s][f] - _last[f]) * EpsInv, 1)
            /\ rates[s].bytes_sec_total.d = 1
            /\ rates[s].pkts_sec_total.d = 1

\* counters that grew over an elapsed time of zero
C11_Witness ==
    \E s \in Subs :
        /\ pc[s] = "append"
        /\ cur[s]["t"] = _last["t"]
        /\ cur[s]["bytes_recv"] > _last["bytes_recv"]
        /\ rates[s].bytes_sec_recv.n >= EpsInv

\* C12: the process primes exactly once, also when several subscribers open
\* /stream together: a priming snapshot is stored only while no snapshot is
\* stored, a stored snapshot is never unset, and no payload is built while
\* no snapshot is stored.
C12_PrimesOnce ==
    [][/\ \A s \in Subs : (pc[s] = "prime" /\ pc'[s] = "sleep") => _last = None
       /\ _last # None => _last' # None
       /\ \A s \in Subs : pc'[s] = "yield" => _last' # None]_vars

\* C13: a subscriber that disconnects, at its yield included, leaves the
\* sampling as it would have been without the disconnect: the tick it was
\* handed still becomes the stored snapshot, the window and the smoothed
\* health are untouched, and the other subscribers stay where they are.
C13_DisconnectIsLocal ==
    [][\A s \in Subs :
          Disconnect(s)
          => /\ _last' = cur[s]
             /\ UNCHANGED <<WINDOW_PPS, ewma_health>>
             /\ \A t \in Subs \ {s} : pc'[t] = pc[t] /\ wake'[t] = wake[t]]_vars

\* no generator is ended by a failed read or by a disconnect
NoneEnded == \A s \in Subs : pc[s] \notin {"crashed", "closed"}

\* C14: sampling does not depend on the subscribers' consumption: as long as
\* no generator is ended, sampling that has begun is not held up by a
\* subscriber that is slow to take its payloads or has stopped taking them:
\* while time remains, a generator comes to sample the last second or to
\* sleep towards a later one.
C14_SamplingGoesOn ==
    []NoneEnded
    => ((Len(observed) > 0 /\ clock < horizon)
        ~> (\E s \in Subs :
               \/ pc[s] = "rates" /\ cur[s]["t"] = horizon
               \/ pc[s] = "sleep" /\ wake[s] > horizon))

\* inputs that health_score is compared on: the same tick with another
\* throughput, or with other error and drop counts
AltBytes == {0, 1000, 5000000, 13107200, 20000000, 26214400, 52428800,
             262144000, 300000000}
AltErrs == {0, 1, 2, 6, 25}
AltDrops == {0, 1, 2}

WithBytes(r, by) == [r EXCEPT !.bytes_sec_total = Frac(by, 1)]
WithFaults(r, e, d) ==
    [r EXCEPT !.errin_delta = e, !.errout_delta = 0,
              !.dropin_delta = d, !.dropout_delta = 0]

\* penalty = 5 * errors + 3 * drops, in points
PenaltyPoints(r) ==
    5 * (r.errin_delta + r.errout_delta) + 3 * (r.dropin_delta + r.dropout_delta)

NoFaults(r) == PenaltyPoints(r) = 0

\* C15 as stated: the raw score does not decrease as throughput grows with
\* the error and drop deltas at zero, and at one throughput any two
\* penalties p1 < p2 give raw(p1) > raw(p2).
C15_RawStrictInPenalty ==
    \A s \in Subs : pc[s] = "score" =>
        /\ NoFaults(rates[s]) =>
               \A by \in AltBytes :
                   LET r2 == WithBytes(rates[s], by)
                   IN  /\ FracLess(rates[s].bytes_sec_total, r2.bytes_sec_total)
                          => Raw(rates[s]) <= Raw(r2)
                       /\ FracLess(r2.bytes_sec_total, rates[s].bytes_sec_total)
                          => Raw(r2) <= Raw(rates[s])
        /\ \A e \in AltErrs, d \in AltDrops :
               LET r2 == WithFaults(rates[s], e, d)
               IN  PenaltyPoints(rates[s]) < PenaltyPoints(r2)
                   => Raw(rates[s]) > Raw(r2)

\* C15, amended: the raw score does not decrease as throughput grows with
\* the error and drop deltas at zero; at one throughput, penalties p1 < p2
\* give raw(p1) >= raw(p2), and raw(p1) > raw(p2) unless raw(p1) is 0, where
\* the clamp holds both at 0.
C15_RawMonotone ==
    \A s \in Subs : pc[s] = "score" =>
        /\ NoFaults(rates[s]) =>
               \A by \in AltBytes :
                   LET r2 == WithBytes(rates[s], by)
                   IN  /\ FracLess(rates[s].bytes_sec_total, r2.bytes_sec_total)
                          => Raw(rates[s]) <= Raw(r2)
                       /\ FracLess(r2.bytes_sec_total, rates[s].bytes_sec_total)
                          => Raw(r2) <= Raw(rates[s])
        /\ \A e \in AltErrs, d \in AltDrops :
               LET r2 == WithFaults(rates[s], e, d)
               IN  PenaltyPoints(rates[s]) < PenaltyPoints(r2)
                   => /\ Raw(rates[s]) >= Raw(r2)
                      /\ Raw(rates[s]) > 0 => Raw(rates[s]) > Raw(r2)
                      /\ Raw(rates[s]) = 0 => Raw(r2) = 0

\* a penalty that lowers a positive score without reaching the clamp
C15_Witness ==
    \E s \in Subs :
        /\ pc[s] = "score"
        /\ PenaltyPoints(rates[s]) > 0
        /\ 0 < Raw(rates[s])
        /\ Raw(rates[s]) < Base(rates[s])
        /\ Raw(WithFaults(rates[s], 25, 2)) = 0

\* the sample's counters are those of the stored snapshot
SameCounters(s) == \A f \in Fields : cur[s][f] = _last[f]

\* C16: when the sample's cumulative counters equal the stored snapshot's,
\* then whatever the window holds every rate and every delta of the tick is
\* 0, the raw health is 0 and the anomaly list is empty.
C16_NoTrafficTick ==
    \A s \in Subs :
        (pc[s] = "yield" /\ SameCounters(s)) =>
            /\ \A f \in DOMAIN RateOf : rates[s][RateOf[f]] = Zero
            /\ \A f \in DOMAIN DeltaOf : rates[s][DeltaOf[f]] = 0
            /\ rates[s].bytes_sec_total = Zero
            /\ rates[s].pkts_sec_total = Zero
            /\ Raw(rates[s]) = 0
            /\ ~ burst[s]
            /\ payload[s].anomalies = << >>
            /\ payload[s].throughput_bps = 0
            /\ payload[s].pkts_per_sec = 0

\* no traffic after a window of busy seconds, far below their mean
C16_Witness ==
    \E s \in Subs :
        /\ pc[s] = "yield"
        /\ SameCounters(s)
        /\ Len(WINDOW_PPS) = W
        /\ WINDOW_PPS[1] = Level(10000)
        /\ WINDOW_PPS[W - 1] = Level(10000)
        /\ WINDOW_PPS[W] = Zero

\* the window was full of one value when the tick's sample, a higher one, came
SpikeOverFlat ==
    /\ Len(observed) = W + 1
    /\ Flat(SubSeq(observed, 1, W))
    /\ FracLess(observed[W], observed[W + 1])

\* C17: a sample far above a full window of one flat value has a z-score
\* above 2.5, and the payload of that tick carries a burst tag.
C17_SpikeIsBurst ==
    \A s \in Subs :
        (pc[s] = "yield" /\ SpikeOverFlat) =>
            /\ IsBurst(WINDOW_PPS, rates[s].pkts_sec_total)
            /\ burst[s]
            /\ Len(payload[s].anomalies) > 0
            /\ payload[s].anomalies[1] = "burst"

\* thirty samples of 100 pkts/s, then one of 10000
C17_Witness ==
    \E s \in Subs :
        /\ pc[s] = "yield"
        /\ SpikeOverFlat
        /\ observed[1] = Level(100)
        /\ observed[W + 1] = Level(10000)
        /\ Len(WINDOW_PPS) = W
        /\ WINDOW_PPS[W] = Level(10000)

\* C18: deltas are conserved per subscriber, others connected or not: as
\* long as the host has not restarted its counters, the deltas of the ticks
\* a generator has run add up to the growth of each counter from the
\* snapshot its first tick was measured from to the snapshot of its latest.
C18_DeltasConserved ==
    ~ resets =>
        \A s \in Subs :
            pc[s] = "yield" =>
                \A f \in DOMAIN DeltaOf :
                    reported[s].sum[f] = cur[s][f] - reported[s].base[f]

\* C19: under any interleaving of the generators, the stored snapshot that
\* compute_rates is given is no later than the sample (the clock counts whole
\* seconds: its second is not after the sample's), and the timestamp of the
\* stored snapshot never decreases from one store to the next.
C19_PrevBeforeCur ==
    [][/\ \A s \in Subs :
             (pc[s] = "rates" /\ pc'[s] = "append") => _last["t"] <= cur[s]["t"]
       /\ (_last # None /\ _last' # None) => _last["t"] <= _last'["t"]]_vars

\* the tick of generator s is one of the first k of the process: its sample
\* stands nowhere in the history but among the first k
AmongFirst(s, k) ==
    \A i \in DOMAIN observed : observed[i] = rates[s].pkts_sec_total => i <= k

\* C20: no burst is flagged from a window of fewer than 8 samples, the
\* newest included (its z-score is at most sqrt(n - 1) < 2.5 for n <= 7), so
\* that none of the first 7 ticks of the process carries a burst tag.
C20_NoEarlyBurst ==
    [][\A s \in Subs :
          (pc[s] = "stats" /\ pc'[s] = "score") =>
              /\ Len(WINDOW_PPS) < 8 => ~ burst'[s]
              /\ AmongFirst(s, 7) => ~ burst'[s]]_vars

====
